---- MODULE Spec2Model ----
(***************************************************************************)
(* LLM Jukebox (src/server.py): the download_and_play tool, its Resolver   *)
(* get_youtube_info, its Fetcher download_and_store_track and the          *)
(* suppress_output decorator around both.                                   *)
(*                                                                         *)
(* Text is a sequence of tokens (strings): a file path is a sequence of    *)
(* one-character tokens, a message is the concatenation of its literal     *)
(* pieces and of the texts formatted into it.  Python's None is the empty  *)
(* sequence where a dict or nothing is expected (Some(d) == <<d>>).        *)
(***************************************************************************)
EXTENDS Integers, Sequences, FiniteSets, TLC

(***************************************************************************)
(* Bounds of the model.                                                    *)
(***************************************************************************)
\* tool invocations the transport makes in one run
MaxRequests == 2
\* entries in a search result
MaxEntries == 2
\* progress-hook calls during one download
MaxHooks == 2
\* characters of a file path reported to the progress hook (SpecPath)
MaxPathLen == 5

(***************************************************************************)
(* pathlib.PurePosixPath, as used at server.py:111-113 and :120.           *)
(***************************************************************************)
PathChars == {"/", ".", "m", "p", "3", "M"}

RECURSIVE SeqsUpTo(_, _)
SeqsUpTo(S, n) ==
    IF n = 0 THEN {<<>>}
    ELSE LET shorter == SeqsUpTo(S, n - 1)
         IN  shorter \cup {Append(s, c) : s \in {t \in shorter : Len(t) = n - 1}, c \in S}

Paths == SeqsUpTo(PathChars, MaxPathLen)

\* str.lower() on the characters of the model's alphabet
LowerChar(c) == IF c = "M" THEN "m" ELSE c

Lower(s) == [i \in 1..Len(s) |-> LowerChar(s[i])]

\* s.split("/")
RECURSIVE SplitSlash(_)
SplitSlash(s) ==
    LET idx == {i \in 1..Len(s) : s[i] = "/"}
    IN  IF idx = {} THEN <<s>>
        ELSE LET i == CHOOSE j \in idx : \A k \in idx : j <= k
             IN  <<SubSeq(s, 1, i - 1)>> \o SplitSlash(SubSeq(s, i + 1, Len(s)))

\* number of leading slashes
RECURSIVE LeadingSlashes(_)
LeadingSlashes(s) ==
    IF s # <<>> /\ Head(s) = "/" THEN 1 + LeadingSlashes(Tail(s)) ELSE 0

\* the root of a posix path: "//" is kept, any other run of slashes is "/"
PathRoot(s) ==
    LET n == LeadingSlashes(s)
    IN  IF n = 0 THEN <<>> ELSE IF n = 2 THEN <<"/", "/">> ELSE <<"/">>

IsRealPart(c) == c # <<>> /\ c # <<".">>

\* the components after the root: empty and "." components are dropped
PathParts(s) == SelectSeq(SplitSlash(s), IsRealPart)

\* PurePath.name
PathName(s) ==
    LET parts == PathParts(s)
    IN  IF parts = <<>> THEN <<>> ELSE parts[Len(parts)]

\* the suffix of a file name: from its last dot, unless that dot is the
\* first or the last character
NameSuffix(name) ==
    LET dots == {i \in 1..Len(name) : name[i] = "."}
    IN  IF dots = {} THEN <<>>
        ELSE LET i == CHOOSE j \in dots : \A k \in dots : k <= j
             IN  IF 1 < i /\ i < Len(name) THEN SubSeq(name, i, Len(name)) ELSE <<>>

\* PurePath.suffix
PathSuffix(s) == NameSuffix(PathName(s))

RECURSIVE JoinSlash(_)
JoinSlash(parts) ==
    IF parts = <<>> THEN <<>>
    ELSE IF Len(parts) = 1 THEN parts[1]
    ELSE parts[1] \o <<"/">> \o JoinSlash(Tail(parts))

\* str(PurePosixPath(s))
PathStr(s) ==
    LET r == PathRoot(s)
        p == PathParts(s)
    IN  IF r = <<>> /\ p = <<>> THEN <<".">> ELSE r \o JoinSlash(p)

\* PurePath.with_suffix raises ValueError for a path with an empty name
WithSuffixRaises(s) == PathName(s) = <<>>

\* str(PurePath(s).with_suffix(suffix)), for a path with a name
WithSuffix(s, suffix) ==
    LET parts == PathParts(s)
        name  == PathName(s)
        old   == NameSuffix(name)
        stem  == SubSeq(name, 1, Len(name) - Len(old))
    IN  PathRoot(s) \o JoinSlash(SubSeq(parts, 1, Len(parts) - 1) \o <<stem \o suffix>>)

(***************************************************************************)
(* Python values.                                                          *)
(***************************************************************************)
\* None, where a dict (or nothing) is expected
None == <<>>

Some(d) == <<d>>

\* a dict is a function from its keys; {} is the function of no keys
EmptyDict == <<>>

\* the text of None formatted into an f-string; a key whose value is None
\* carries this token, which is all the program ever does with the value
NoneText == "None"

\* dict.get(key, default), server.py:115-116
Get(d, key, default) == IF key \in DOMAIN d THEN d[key] ELSE default

\* bool(x) of an optional dict: None and {} are falsy
Truthy(x) == x # None /\ x[1] # EmptyDict

(***************************************************************************)
(* The collaborators' possible answers.                                    *)
(***************************************************************************)
Queries == {"Believer", " "}

\* the messages of the errors yt_dlp raises (str(e))
Errors == {"ERROR: network unreachable"}

\* items the platform may match
Entries ==
    { [id |-> "v1", title |-> "Believer", uploader |-> "Imagine Dragons"],
      [id |-> "v2", uploader |-> NoneText],
      [id |-> "v3", title |-> "Solo"],
      EmptyDict }

EntryLists == SeqsUpTo(Entries, MaxEntries)

\* what extract_info may return: None, {}, a dict without "entries", a
\* dict with an entries list
Infos ==
    {None, Some(EmptyDict), Some([id |-> "pl"])}
        \cup {Some([entries |-> es]) : es \in EntryLists}

\* ids of the items the platform holds
ItemIds == {e.id : e \in {x \in Entries : "id" \in DOMAIN x}}

\* file paths the download collaborator reports in the whole-workflow
\* specification (SpecPath draws them from Paths)
ReportedNames == { <<"m", "/", "m", ".", "M">>, <<"m", ".", "m", "p", "3">> }

\* the dicts yt_dlp hands to a progress hook
HookEvents ==
    {[status |-> "downloading", filename |-> <<"m", ".", "p">>]}
        \cup {[status |-> "finished", filename |-> f] : f \in ReportedNames}

(***************************************************************************)
(* Outcomes of calls: a returned value or a raised error (its message).    *)
(***************************************************************************)
\* of extract_info and of get_youtube_info: an optional dict, or an error
Found(v) == [kind |-> "return", val |-> v, err |-> <<>>]

Failed(msg) == [kind |-> "raise", val |-> None, err |-> msg]

NotCalled == [kind |-> "none", val |-> None, err |-> <<>>]

\* of download_and_store_track and of download_and_play: a text, or an error
Return(text) == [kind |-> "return", val |-> text]

Raise(msg) == [kind |-> "raise", val |-> msg]

Pending == [kind |-> "none", val |-> <<>>]

(***************************************************************************)
(* Options, server.py:20-29, 54-57, 89-100.                                *)
(***************************************************************************)
BaseOpts ==
    [ no_warnings |-> TRUE, quiet |-> TRUE, audioquality |-> "0",
      outtmpl |-> "%(title)s/%(title)s.%(ext)s", noplaylist |-> TRUE,
      extract_flat |-> FALSE, logger |-> "yt_dlp", writethumbnail |-> TRUE ]

InfoExtra == [extract_flat |-> FALSE]

DownloadExtra ==
    [ format |-> "bestaudio/best", preferredcodec |-> "mp3",
      preferredquality |-> "192", progress_hooks |-> "progress_hook" ]

\* {**base, **extra}: a new dict; the base dict is left as it was
MergeOpts(base, extra) == [opts |-> extra @@ base, base |-> base]

(***************************************************************************)
(* The messages.                                                           *)
(***************************************************************************)
Mp3 == <<".", "m", "p", "3">>

\* server.py:148
NoResultsMsg == <<"No search results found on YouTube for your query.">>

\* server.py:118-122
SuccessMsg(title, artist, name) ==
    <<"Downloaded and playing: '", title, "' by ", artist, "\nFile saved as: ">>
        \o name \o <<"\nAdded to music library database.\n">>

\* server.py:126
NoFilesMsg(q) == <<"Download completed for: ", q, ", but no files were found.">>

FailedPrefix == "Failed to download track: "

\* the except clause that drops the prefix
DownloadFailedBare(err) == err

\* server.py:129
DownloadFailed(err) == <<FailedPrefix>> \o err

\* the literal of server.py:156 (a cross mark, then the words)
ErrorPrefix == "X Error processing request: "

\* an except clause that lets the error through
HandlerExceptReraise(err) == Raise(err)

\* server.py:155-157
HandlerExcept(err) == Return(<<ErrorPrefix>> \o err)

\* str(e) of the errors Python itself raises in the Fetcher
EmptyNameError(path) == <<"PosixPath('">> \o PathStr(path) \o <<"') has an empty name">>

NoGetError == <<"'NoneType' object has no attribute 'get'">>

(***************************************************************************)
(* The Resolver's and the Fetcher's bodies, as functions of what the       *)
(* collaborator answered.                                                  *)
(***************************************************************************)
\* a Resolver that takes the last entry
GetYoutubeInfoLast(outcome) ==
    IF outcome.kind = "raise" THEN Found(None)
    ELSE LET info == outcome.val
         IN  IF \/ info = None
                \/ info[1] = EmptyDict
                \/ "entries" \notin DOMAIN info[1]
                \/ Len(info[1].entries) = 0
             THEN Found(None)
             ELSE Found(Some(info[1].entries[Len(info[1].entries)]))

\* server.py:59-70: the value get_youtube_info returns for an outcome of
\* extract_info
GetYoutubeInfo(outcome) ==
    IF outcome.kind = "raise" THEN Found(None)
    ELSE LET info == outcome.val
         IN  IF \/ info = None
                \/ info[1] = EmptyDict
                \/ "entries" \notin DOMAIN info[1]
                \/ Len(info[1].entries) = 0
             THEN Found(None)
             ELSE Found(Some(info[1].entries[1]))

\* an extension check that never renames
EnsureMp3Never(music_file) == Return(music_file)

\* server.py:109-113: the path whose name is reported, or the ValueError
\* of with_suffix
EnsureMp3(music_file) ==
    IF Lower(PathSuffix(music_file)) # Mp3
    THEN IF WithSuffixRaises(music_file)
         THEN Raise(EmptyNameError(music_file))
         ELSE Return(WithSuffix(music_file, Mp3))
    ELSE Return(music_file)

\* server.py:115
TrackTitle(video_info) == Get(video_info, "title", "Unknown Title")

\* an uploader default that reuses the title's placeholder
TrackArtistWrongDefault(video_info) == Get(video_info, "uploader", "Unknown Title")

\* server.py:116
TrackArtist(video_info) == Get(video_info, "uploader", "Unknown Artist")

\* a Fetcher that treats an empty list of files as a failure
NoFilesRaise(q) == Raise(DownloadFailed(NoFilesMsg(q)))

\* server.py:125-126
NoFiles(q) == Return(NoFilesMsg(q))

\* server.py:108-129: what download_and_store_track does once
\* ydl.download has returned
FetcherBody(video_info, q, files) ==
    IF files # <<>>
    THEN LET m == EnsureMp3(files[1])
         IN  IF m.kind = "raise" THEN Raise(DownloadFailed(m.val))
             ELSE IF video_info = None THEN Raise(DownloadFailed(NoGetError))
             ELSE Return(SuccessMsg(TrackTitle(video_info[1]),
                                    TrackArtist(video_info[1]),
                                    PathName(m.val)))
    ELSE NoFiles(q)

\* server.py:103-106: what the download collaborator is asked to fetch
DownloadTarget(video_info, q) == [by |-> "search", key |-> q]

\* the items the download collaborator may fetch for a target: a search is
\* answered anew, with any item of the platform
Candidates(target) == IF target.by = "search" THEN ItemIds ELSE {target.key}

\* a handler that skips the check of the Resolver's result
NotVideoInfoNever(video_info) == FALSE

\* server.py:147
NotVideoInfo(video_info) == ~Truthy(video_info)

(***************************************************************************)
(* suppress_output, server.py:31-42: redirect_stdout and redirect_stderr.  *)
(***************************************************************************)
Last(s) == s[Len(s)]

Front(s) == SubSeq(s, 1, Len(s) - 1)

\* __enter__ of both context managers
RedirectEnter(s) ==
    [ stdout |-> "capture", stderr |-> "capture",
      old_stdout |-> Append(s.old_stdout, s.stdout),
      old_stderr |-> Append(s.old_stderr, s.stderr) ]

\* a restoration placed after the call instead of in __exit__: skipped
\* when the call raises
RedirectExitOnReturnOnly(s, raised) ==
    IF raised THEN s
    ELSE [ stdout |-> Last(s.old_stdout), stderr |-> Last(s.old_stderr),
           old_stdout |-> Front(s.old_stdout), old_stderr |-> Front(s.old_stderr) ]

\* __exit__ of both context managers, on return and on raise alike
RedirectExit(s, raised) ==
    [ stdout |-> Last(s.old_stdout), stderr |-> Last(s.old_stderr),
      old_stdout |-> Front(s.old_stdout), old_stderr |-> Front(s.old_stderr) ]

\* a list of files kept from the previous call
KeepDownloadedFiles(previous) == previous

\* server.py:83
NewDownloadedFiles(previous) == <<>>

(***************************************************************************)
(* State.                                                                  *)
(***************************************************************************)
VARIABLES
    pc,                \* where the server is in the current invocation
    nreq,              \* invocations answered so far
    query,             \* the argument of download_and_play
    extracted,         \* the outcome of extract_info (info, or the error)
    resolved,          \* the outcome of get_youtube_info
    video_info,        \* download_and_play's video_info
    downloaded_files,  \* download_and_store_track's list, filled by progress_hook
    hooks,             \* the dicts progress_hook was called with in this download
    fetched,           \* the item the download collaborator fetched, if any
    downloaded,        \* the outcome of ydl.download
    fetch_out,         \* the outcome of download_and_store_track
    response,          \* the outcome of download_and_play
    streams,           \* sys.stdout, sys.stderr and the targets saved by the redirections
    captured,          \* something was written to the StringIO buffers of this call
    leaked,            \* a collaborator's output reached the protocol streams
    calls,             \* the collaborator calls of this invocation
    disk,              \* the items whose files are under download_path
    past,              \* the queries answered so far
    YT_DLP_BASE_OPTS,  \* the module's shared options
    ydl_opts           \* the options of the current YoutubeDL

vars ==
    << pc, nreq, query, extracted, resolved, video_info, downloaded_files, hooks,
       fetched, downloaded, fetch_out, response, streams, captured, leaked, calls,
       disk, past, YT_DLP_BASE_OPTS, ydl_opts >>

NoQuery == ""

NoOpts == <<>>

Init ==
    /\ pc = "idle"
    /\ nreq = 0
    /\ query = NoQuery
    /\ extracted = NotCalled
    /\ resolved = NotCalled
    /\ video_info = None
    /\ downloaded_files = <<>>
    /\ hooks = <<>>
    /\ fetched = None
    /\ downloaded = Pending
    /\ fetch_out = Pending
    /\ response = Pending
    /\ streams = [stdout |-> "protocol", stderr |-> "protocol",
                  old_stdout |-> <<>>, old_stderr |-> <<>>]
    /\ captured = FALSE
    /\ leaked = FALSE
    /\ calls = <<>>
    /\ disk = {}
    /\ past = {}
    /\ YT_DLP_BASE_OPTS = BaseOpts
    /\ ydl_opts = NoOpts

(***************************************************************************)
(* Actions.                                                                *)
(***************************************************************************)
\* the transport invokes the tool, server.py:131-132
Invoke(q) ==
    /\ pc = "idle"
    /\ pc' = "handler"
    /\ query' = q
    /\ UNCHANGED << nreq, extracted, resolved, video_info, downloaded_files, hooks,
                    fetched, downloaded, fetch_out, response, streams, captured,
                    leaked, calls, disk, past, YT_DLP_BASE_OPTS, ydl_opts >>

\* server.py:145, 33-37, 54-62: the call of get_youtube_info up to extract_info
ResolverEnter ==
    /\ pc = "handler"
    /\ pc' = "extract_info"
    /\ streams' = RedirectEnter(streams)
    /\ captured' = FALSE
    /\ LET m == MergeOpts(YT_DLP_BASE_OPTS, InfoExtra)
       IN  /\ ydl_opts' = m.opts
           /\ YT_DLP_BASE_OPTS' = m.base
    /\ calls' = Append(calls, "extract_info")
    /\ UNCHANGED << nreq, query, extracted, resolved, video_info, downloaded_files,
                    hooks, fetched, downloaded, fetch_out, response, leaked, disk, past >>

\* the collaborator writes to sys.stdout or sys.stderr while it runs
Emit(stream) ==
    /\ pc \in {"extract_info", "download"}
    /\ IF streams[stream] = "protocol"
       THEN leaked' = TRUE /\ UNCHANGED captured
       ELSE captured' = TRUE /\ UNCHANGED leaked
    /\ UNCHANGED << pc, nreq, query, extracted, resolved, video_info, downloaded_files,
                    hooks, fetched, downloaded, fetch_out, response, streams, calls,
                    disk, past, YT_DLP_BASE_OPTS, ydl_opts >>

\* server.py:63-70: extract_info answers, and get_youtube_info's body ends
ExtractInfo(outcome) ==
    /\ pc = "extract_info"
    /\ pc' = "resolver_exit"
    /\ extracted' = outcome
    /\ resolved' = GetYoutubeInfo(outcome)
    /\ UNCHANGED << nreq, query, video_info, downloaded_files, hooks, fetched,
                    downloaded, fetch_out, response, streams, captured, leaked, calls,
                    disk, past, YT_DLP_BASE_OPTS, ydl_opts >>

\* server.py:37-41: the with block of the wrapper is left
ResolverExit ==
    /\ pc = "resolver_exit"
    /\ pc' = "resolved"
    /\ streams' = RedirectExit(streams, resolved.kind = "raise")
    /\ captured' = FALSE
    /\ ydl_opts' = NoOpts
    /\ extracted' = NotCalled
    /\ UNCHANGED << nreq, query, resolved, video_info, downloaded_files,
                    hooks, fetched, downloaded, fetch_out, response, leaked, calls,
                    disk, past, YT_DLP_BASE_OPTS >>

\* server.py:145-148, 155-157: the handler takes the Resolver's result
HandlerCheck ==
    /\ pc = "resolved"
    /\ IF resolved.kind = "raise"
       THEN /\ response' = HandlerExcept(resolved.err)
            /\ pc' = "done"
            /\ UNCHANGED video_info
       ELSE /\ video_info' = resolved.val
            /\ IF NotVideoInfo(resolved.val)
               THEN response' = Return(NoResultsMsg) /\ pc' = "done"
               ELSE pc' = "fetcher" /\ UNCHANGED response
    /\ resolved' = NotCalled
    /\ UNCHANGED << nreq, query, extracted, downloaded_files, hooks, fetched,
                    downloaded, fetch_out, streams, captured, leaked, calls, disk,
                    past, YT_DLP_BASE_OPTS, ydl_opts >>

\* server.py:151, 33-37, 83-106: the call of download_and_store_track up to
\* ydl.download
FetcherEnter ==
    /\ pc = "fetcher"
    /\ pc' = "download"
    /\ streams' = RedirectEnter(streams)
    /\ captured' = FALSE
    /\ downloaded_files' = NewDownloadedFiles(downloaded_files)
    /\ hooks' = <<>>
    /\ LET m == MergeOpts(YT_DLP_BASE_OPTS, DownloadExtra)
       IN  /\ ydl_opts' = m.opts
           /\ YT_DLP_BASE_OPTS' = m.base
    /\ calls' = Append(calls, "download")
    /\ UNCHANGED << nreq, query, extracted, resolved, video_info, fetched, downloaded,
                    fetch_out, response, leaked, disk, past >>

\* server.py:85-87: the collaborator calls progress_hook
ProgressHook(d) ==
    /\ pc = "download"
    /\ hooks' = Append(hooks, d)
    /\ downloaded_files' =
           IF d.status = "finished" THEN Append(downloaded_files, d.filename)
           ELSE downloaded_files
    /\ UNCHANGED << pc, nreq, query, extracted, resolved, video_info, fetched,
                    downloaded, fetch_out, response, streams, captured, leaked, calls,
                    disk, past, YT_DLP_BASE_OPTS, ydl_opts >>

\* a file was reported finished
SomeFinished == \E i \in 1..Len(hooks) : hooks[i].status = "finished"

\* what the collaborator may have fetched when ydl.download ends: an item
\* of its target if a file was reported, possibly nothing otherwise
MayFetch ==
    {Some(i) : i \in Candidates(DownloadTarget(video_info, query))}
        \cup (IF SomeFinished THEN {} ELSE {None})

\* server.py:106-126: ydl.download returns, and the Fetcher's body ends
DownloadReturns(item) ==
    /\ pc = "download"
    /\ item \in MayFetch
    /\ pc' = "fetcher_exit"
    /\ fetched' = item
    /\ disk' = disk \cup {item[i] : i \in 1..Len(item)}
    /\ downloaded' = Return(<<>>)
    /\ fetch_out' = FetcherBody(video_info, query, downloaded_files)
    /\ UNCHANGED << nreq, query, extracted, resolved, video_info, downloaded_files,
                    hooks, response, streams, captured, leaked, calls, past,
                    YT_DLP_BASE_OPTS, ydl_opts >>

\* server.py:106, 128-129: ydl.download raises, during download or transcode
DownloadRaises(item, e) ==
    /\ pc = "download"
    /\ item \in MayFetch
    /\ pc' = "fetcher_exit"
    /\ fetched' = item
    /\ disk' = disk \cup {item[i] : i \in 1..Len(item)}
    /\ downloaded' = Raise(<<e>>)
    /\ fetch_out' = Raise(DownloadFailed(<<e>>))
    /\ UNCHANGED << nreq, query, extracted, resolved, video_info, downloaded_files,
                    hooks, response, streams, captured, leaked, calls, past,
                    YT_DLP_BASE_OPTS, ydl_opts >>

\* server.py:37-41: the with block of the wrapper is left, by return or by raise
FetcherExit ==
    /\ pc = "fetcher_exit"
    /\ pc' = "fetched"
    /\ streams' = RedirectExit(streams, fetch_out.kind = "raise")
    /\ captured' = FALSE
    /\ ydl_opts' = NoOpts
    /\ hooks' = <<>>
    /\ UNCHANGED << nreq, query, extracted, resolved, video_info, downloaded_files,
                    fetched, downloaded, fetch_out, response, leaked, calls,
                    disk, past, YT_DLP_BASE_OPTS >>

\* server.py:151-157: the handler returns the Fetcher's text, or the text
\* made of its error
HandlerReturn ==
    /\ pc = "fetched"
    /\ pc' = "done"
    /\ response' = IF fetch_out.kind = "raise" THEN HandlerExcept(fetch_out.val)
                   ELSE Return(fetch_out.val)
    /\ UNCHANGED << nreq, query, extracted, resolved, video_info, downloaded_files,
                    hooks, fetched, downloaded, fetch_out, streams, captured, leaked,
                    calls, disk, past, YT_DLP_BASE_OPTS, ydl_opts >>

\* the transport sends the answer; the frames of the invocation are gone
Respond ==
    /\ pc = "done"
    /\ pc' = "idle"
    /\ nreq' = nreq + 1
    /\ past' = past \cup {query}
    /\ query' = NoQuery
    /\ video_info' = None
    /\ fetched' = None
    /\ downloaded' = Pending
    /\ fetch_out' = Pending
    /\ response' = Pending
    /\ calls' = <<>>
    /\ UNCHANGED << extracted, resolved, hooks, downloaded_files, streams,
                    captured, leaked, disk, YT_DLP_BASE_OPTS, ydl_opts >>

SearchOutcomes == {Failed(<<e>>) : e \in Errors} \cup {Found(i) : i \in Infos}

Next ==
    \/ nreq < MaxRequests /\ \E q \in Queries : Invoke(q)
    \/ ResolverEnter
    \/ \E stream \in {"stdout", "stderr"} : Emit(stream)
    \/ \E outcome \in SearchOutcomes : ExtractInfo(outcome)
    \/ ResolverExit
    \/ HandlerCheck
    \/ FetcherEnter
    \/ Len(hooks) < MaxHooks /\ \E d \in HookEvents : ProgressHook(d)
    \/ \E item \in MayFetch : DownloadReturns(item)
    \/ \E item \in MayFetch, e \in Errors : DownloadRaises(item, e)
    \/ FetcherExit
    \/ HandlerReturn
    \/ Respond

Spec == Init /\ [][Next]_vars

(***************************************************************************)
(* One invocation whose download reports one finished file, of any path    *)
(* of at most MaxPathLen characters.                                       *)
(***************************************************************************)
OneMatch == Found(Some([entries |-> <<[id |-> "v1", title |-> "Believer", uploader |-> "Imagine Dragons"]>>]))

NextPath ==
    \/ Invoke("Believer")
    \/ ResolverEnter
    \/ ExtractInfo(OneMatch)
    \/ ResolverExit
    \/ HandlerCheck
    \/ FetcherEnter
    \/ pc = "download" /\ hooks = <<>> /\ \E f \in Paths : ProgressHook([status |-> "finished", filename |-> f])
    \/ hooks # <<>> /\ DownloadReturns(Some("v1"))
    \/ FetcherExit
    \/ HandlerReturn

SpecPath == Init /\ [][NextPath]_vars

(***************************************************************************)
(* Properties.                                                             *)
(***************************************************************************)
\* text contains sub as a contiguous piece
Contains(text, sub) ==
    \E i \in 1..(Len(text) - Len(sub) + 1) : SubSeq(text, i, i + Len(sub) - 1) = sub

IsSuccess(text) == text # <<>> /\ text[1] = "Downloaded and playing: '"

\* the file name a success message reports: what stands between
\* "File saved as: " and the closing line
FileNameIn(text) ==
    LET i == CHOOSE j \in 1..Len(text) : text[j] = "\nFile saved as: "
    IN  SubSeq(text, i + 1, Len(text) - 1)

\* the files of the "finished" notifications among hook calls
RECURSIVE FinishedFiles(_)
FinishedFiles(hs) ==
    IF hs = <<>> THEN <<>>
    ELSE (IF Head(hs).status = "finished" THEN <<Head(hs).filename>> ELSE <<>>)
             \o FinishedFiles(Tail(hs))

InResolver == pc \in {"extract_info", "resolver_exit"}

InFetcher == pc \in {"download", "fetcher_exit"}

AfterFetcherBody == pc \in {"fetcher_exit", "fetched", "done"}

\* C1: download_and_play never lets an error out: whatever the search and
\* the download did, the invocation ends with a returned, non-empty text.
C1_AlwaysReturnsText ==
    /\ response.kind # "raise"
    /\ pc = "done" => response.kind = "return" /\ response.val # <<>>

\* C1's case: the download raised and the invocation ended
C1_Witness ==
    pc = "done" /\ downloaded.kind = "raise" /\ response.kind = "return"

\* C2: when the Resolver returns None the handler answers the fixed
\* no-results message, and the Fetcher is never entered with None: no
\* download call is made and nothing is fetched in that invocation.
C2_NotFoundNoFetch ==
    /\ pc \in {"fetcher", "download", "fetcher_exit", "fetched"} => video_info # None
    /\ (pc = "done" /\ video_info = None) =>
           /\ response = Return(NoResultsMsg)
           /\ calls = <<"extract_info">>
           /\ fetched = None
           /\ fetch_out = Pending

\* C2's case: a whitespace-only query for which nothing was found
C2_Witness ==
    pc = "done" /\ query = " " /\ video_info = None /\ response = Return(NoResultsMsg)

\* C3: the item the download collaborator fetched is the one the Resolver
\* matched, so the success message describes the downloaded file.
C3_FetchesResolvedItem ==
    (AfterFetcherBody /\ fetch_out.kind = "return" /\ IsSuccess(fetch_out.val)) =>
        fetched = Some(video_info[1].id)

\* C4: an error of ydl.download becomes one error "Failed to download
\* track: " + str(e) of the Fetcher, and the handler returns a text
\* containing that prefix followed by the underlying message.
C4_DownloadFailedText ==
    (AfterFetcherBody /\ downloaded.kind = "raise") =>
        /\ fetch_out = Raise(<<"Failed to download track: ">> \o downloaded.val)
        /\ pc = "done" =>
               /\ response.kind = "return"
               /\ Contains(response.val, <<"Failed to download track: ">> \o downloaded.val)

\* C4's case: the download raised and the handler has answered
C4_Witness ==
    pc = "done" /\ downloaded.kind = "raise" /\ downloaded.val = <<"ERROR: network unreachable">>

\* C5: get_youtube_info returns None when extract_info raises, returns
\* None, a dict without "entries" or an empty entries list; otherwise it
\* returns the first entry; it never raises.
C5_ResolverResult ==
    /\ resolved.kind # "raise"
    /\ pc = "resolver_exit" =>
           /\ resolved.kind = "return"
           /\ extracted.kind = "raise" => resolved.val = None
           /\ extracted.kind = "return" =>
                  LET info == extracted.val
                  IN  IF info = None
                      THEN resolved.val = None
                      ELSE IF "entries" \notin DOMAIN info[1]
                      THEN resolved.val = None
                      ELSE IF info[1].entries = <<>>
                      THEN resolved.val = None
                      ELSE resolved.val = Some(Head(info[1].entries))

\* C5's case: a search result of several different entries
C5_Witness ==
    /\ pc = "resolver_exit"
    /\ extracted.kind = "return"
    /\ extracted.val # None
    /\ "entries" \in DOMAIN extracted.val[1]
    /\ Len(extracted.val[1].entries) >= 2
    /\ extracted.val[1].entries[1] # extracted.val[1].entries[2]
    /\ resolved.val = Some(extracted.val[1].entries[1])

\* C6: the file name of every success message has the extension ".mp3",
\* whatever extension the reported path had.
C6_ExtensionIsMp3 ==
    (AfterFetcherBody /\ fetch_out.kind = "return" /\ IsSuccess(fetch_out.val)) =>
        NameSuffix(FileNameIn(fetch_out.val)) = <<".", "m", "p", "3">>

\* C6, amended: the file name of every success message has the extension
\* ".mp3" up to letter case: exactly ".mp3" unless the reported path
\* already had an extension that differs from ".mp3" only in case, which
\* is then kept as reported.
C6_ExtensionIsMp3IgnoringCase ==
    (AfterFetcherBody /\ fetch_out.kind = "return" /\ IsSuccess(fetch_out.val)) =>
        LET ext      == NameSuffix(FileNameIn(fetch_out.val))
            reported == PathSuffix(downloaded_files[1])
        IN  /\ Lower(ext) = <<".", "m", "p", "3">>
            /\ ext # <<".", "m", "p", "3">> =>
                   ext = reported /\ Lower(reported) = <<".", "m", "p", "3">>

\* C6's case: a reported path with another extension, renamed
C6_Witness ==
    /\ pc = "done"
    /\ IsSuccess(response.val)
    /\ PathSuffix(downloaded_files[1]) = <<".", "p">>
    /\ NameSuffix(FileNameIn(response.val)) = <<".", "m", "p", "3">>

\* C7: when ydl.download returns without any "finished" notification the
\* Fetcher returns "Download completed for: <query>, but no files were
\* found.", which is neither the success nor the error message, and the
\* handler returns it as it is.
C7_NoFilesMessage ==
    /\ pc = "fetcher_exit" => (downloaded_files = <<>> <=> ~SomeFinished)
    /\ (AfterFetcherBody /\ downloaded.kind = "return" /\ downloaded_files = <<>>) =>
           /\ fetch_out = Return(<<"Download completed for: ", query, ", but no files were found.">>)
           /\ ~IsSuccess(fetch_out.val)
           /\ ~Contains(fetch_out.val, <<"Failed to download track: ">>)
           /\ fetch_out.val # NoResultsMsg
           /\ pc = "done" => response = fetch_out

\* C7's case: hook calls were made, none of them "finished"
C7_Witness ==
    /\ pc = "fetcher_exit"
    /\ downloaded.kind = "return"
    /\ hooks # <<>>
    /\ ~SomeFinished
    /\ fetch_out.kind = "return"

\* C8: a success message shows the item's title, or "Unknown Title" when
\* the item has no title key, and the item's uploader, or "Unknown Artist"
\* when it has no uploader key.
C8_TitleAndArtist ==
    (AfterFetcherBody /\ fetch_out.kind = "return" /\ IsSuccess(fetch_out.val)) =>
        LET item == video_info[1]
            text == fetch_out.val
        IN  /\ text[2] = IF "title" \in DOMAIN item THEN item.title ELSE "Unknown Title"
            /\ text[4] = IF "uploader" \in DOMAIN item THEN item.uploader ELSE "Unknown Artist"
            /\ pc = "done" => response = Return(text)

\* C8's case: an item without an uploader
C8_Witness ==
    /\ pc = "done"
    /\ IsSuccess(response.val)
    /\ "uploader" \notin DOMAIN video_info[1]
    /\ response.val[4] = "Unknown Artist"

\* C9: while get_youtube_info or download_and_store_track runs, stdout and
\* stderr are the capture buffers and nothing a collaborator writes
\* reaches the protocol streams; outside them, after a return as after a
\* raise, both streams are the ones they were before.
C9_OutputSuppressed ==
    /\ ~leaked
    /\ (InResolver \/ InFetcher) =>
           streams.stdout = "capture" /\ streams.stderr = "capture"
    /\ ~(InResolver \/ InFetcher) =>
           streams = [stdout |-> "protocol", stderr |-> "protocol",
                      old_stdout |-> <<>>, old_stderr |-> <<>>]

\* C9's case: the Fetcher was left by a raise
C9_Witness ==
    pc = "fetched" /\ fetch_out.kind = "raise" /\ streams.stdout = "protocol"

====
